---- MODULE Spec2Model ----
(***************************************************************************)
(* Credential store, lifecycle manager, verifier and admin gate of the     *)
(* markitdown service (app/core/security/api_key.py, the api-key CLI and   *)
(* the conversion routes).                                                 *)
(*                                                                         *)
(* The store is the committed content of the APIKey table.  A storage      *)
(* session (SQLAlchemy Session) keeps the attribute assignments made on    *)
(* its objects until its next commit: create_api_key and rotate_api_key    *)
(* assign the plaintext to api_key.key AFTER their commit, so the session  *)
(* they were given holds that assignment as a pending change.  A session   *)
(* reads the committed rows overlaid with its own pending changes (the     *)
(* query autoflushes, db.get returns the session's own object), and        *)
(* db.commit() writes every pending change of the session.                 *)
(***************************************************************************)
EXTENDS Integers, Sequences, FiniteSets, TLC

\* ---------------------------------------------------------------- bounds
\* The clock moves MaxTicks times, and a caller sends up to MaxExcess requests
\* more than the limit allows while a window lasts.
MaxTicks == 1
MaxExcess == 5

\* The audit trail may hold MaxAudit events.  Every operation that changes a
\* row through the core functions appends one, so this also bounds the rows,
\* the secrets handed out and the clock.
MaxAudit == 3

\* ------------------------------------------------------------- constants
None == 0           \* Python's None (an absent id, key, user or timestamp)
AdminUser == 1      \* the id of the user a caller passes as created_by
HTTP_403_FORBIDDEN == 403

Names == {"a", "b"}
Roles == {"user", "admin"}
Sessions == {"s1", "s2"}
Users == {AdminUser}              \* the values of created_by
Bogus == MaxAudit + 1            \* a token generate_api_key never returns

VARIABLES
    store,                 \* committed APIKey rows, row i has id i
    pending,               \* per session: <<id, plaintext>> assignments not yet committed
    audit,                 \* the audit trail, oldest first
    now,                   \* the clock: datetime.utcnow() returns now and the clock moves on
    nextKey,               \* the next token generate_api_key returns
    API_KEY_AUTH_ENABLED,  \* settings.API_KEY_AUTH_ENABLED
    plaintextOf,           \* history: the plaintext last returned for each id
    issuedWith,            \* history: the plaintext returned when each id was issued
    last,                  \* the last operation and what it returned
    auditDown,             \* the audit store is unavailable: writes to it fail
    RATE_LIMIT_PERIOD,     \* settings.RATE_LIMIT_PERIOD
    clock,                 \* time.time(), in seconds
    ticks,                 \* how often the clock has moved
    window,                \* the limiter's window of the caller: start and count
    requests,              \* the caller's requests in flight and decided
    txn,                   \* per session: the operation it is in the middle of
    storeDown              \* the table cannot be written: db.commit() raises

vars == <<store, pending, audit, now, nextKey, API_KEY_AUTH_ENABLED,
          plaintextOf, issuedWith, last,
          auditDown, RATE_LIMIT_PERIOD, clock, ticks, window, requests, txn,
          storeDown>>

\* The state of the credential operations, of the limiter and of the
\* operations in progress.
credVars == <<store, pending, now, nextKey, plaintextOf, issuedWith>>
rateVars == <<RATE_LIMIT_PERIOD, clock, ticks, window, requests>>
config == <<API_KEY_AUTH_ENABLED, auditDown, storeDown, RATE_LIMIT_PERIOD>>

\* ------------------------------------------------------- Credential Hasher
\* What the key column holds: a bcrypt digest of a token, or (never meant to
\* be stored) the raw token itself.  bcrypt salts every digest; each token is
\* hashed once, when it is generated, so the salt tells no two digests apart
\* that the token does not and is left out.
hash_api_key(key) == [kind |-> "bcrypt", of |-> key]

Plain(key) == [kind |-> "plain", of |-> key]

\* bcrypt.verify(key, hashed_key): passlib parses hashed_key first and raises
\* ValueError (not a valid bcrypt hash) when it is not a digest.
verify_key_hash(key, hashed_key) ==
    IF hashed_key.kind # "bcrypt" THEN "ValueError"
    ELSE IF hashed_key.of = key THEN "True" ELSE "False"

\* ------------------------------------------------------------ Audit trail
\* str(x) of an id or of None: a text, never None itself.
Str(x) == [kind |-> "str", of |-> x]
Raw(x) == [kind |-> IF x = None THEN "none" ELSE "int", of |-> x]

\* record(): appends the event; when the audit store is unavailable the
\* failure is swallowed and the call returns without an event.
audit_log(trail, action, user_id, status) ==
    IF auditDown THEN trail
    ELSE Append(trail, [action |-> action, user_id |-> user_id, status |-> status])

\* The same call where the details of the event matter: they are kept.
audit_log_details(trail, action, user_id, status, details) ==
    IF auditDown THEN trail
    ELSE Append(trail, [action |-> action, user_id |-> user_id, status |-> status,
                        details |-> details])

\* ------------------------------------------------------- Credential Store
APIKey(key, name, role, created_by, t) ==
    [key |-> key, name |-> name, role |-> role, created_by |-> created_by,
     is_active |-> TRUE, created_at |-> t, last_used |-> None]

Ids == 1..Len(store)

PendingOf(s, i) == {p \in pending[s] : p[1] = i}

\* The rows as session s sees them: committed rows overlaid with the
\* session's own pending key assignments.
View(s) ==
    [i \in Ids |->
        IF PendingOf(s, i) = {} THEN store[i]
        ELSE [store[i] EXCEPT !.key = Plain((CHOOSE p \in PendingOf(s, i) : TRUE)[2])]]

\* The rows a fresh session sees (get_db / get_db_session open a new session).
Committed == [i \in Ids |-> store[i]]

AsSeq(view) == [i \in 1..Len(store) |-> view[i]]

\* ----------------------------------------------------- Credential Verifier
\* The scan of verify_api_key over the active rows of `view`, from row i on,
\* in id order (the order the table is read in without ORDER BY): the id of
\* the first match, None when no row matches, ValueError (as -1) when the scan
\* meets a key that is not a digest first.
ValueError == 0 - 1

RECURSIVE Scan(_, _, _)
Scan(view, key, i) ==
    IF i > Len(store) THEN None
    ELSE IF ~view[i].is_active THEN Scan(view, key, i + 1)
    ELSE LET r == verify_key_hash(key, view[i].key) IN
         IF r = "ValueError" THEN ValueError
         ELSE IF r = "True" THEN i
         ELSE Scan(view, key, i + 1)

\* What the last call was (op, the id and the secret it was given) and what it
\* returned or raised.
Outcome(op, arg, key, res, status, msg, ran) ==
    [op |-> op, arg |-> arg, key |-> key, res |-> res,
     status |-> status, msg |-> msg, ran |-> ran]

\* A call of a core function: no HTTP status, no message, no route handler.
Result(op, arg, key, res) == Outcome(op, arg, key, res, None, "", FALSE)

\* db.commit() raised: the exception leaves the function before its audit
\* call and its return.
StoreFailure(op, arg, key) == Outcome(op, arg, key, None, None, "OperationalError", FALSE)

\* No call is in progress: the caller has taken the last result.
Idle == Result("idle", None, None, None)

\* No window, no request, no operation in progress.
NoWindow == [start |-> None, count |-> 0]
NoRequests == [inflight |-> 0, running |-> 0, allowed |-> 0, denied |-> 0]
NoTxn == [op |-> "none", id |-> None, key |-> None, match |-> None]

\* A fresh deployment: empty table, empty trail, nothing in progress.
Fresh ==
    /\ store = <<>>
    /\ pending = [s \in Sessions |-> {}]
    /\ audit = <<>>
    /\ now = 1
    /\ nextKey = 1
    /\ plaintextOf = <<>>
    /\ issuedWith = <<>>
    /\ last = Idle
    /\ clock = 0
    /\ ticks = 0
    /\ window = NoWindow
    /\ requests = NoRequests
    /\ txn = [s \in Sessions |-> NoTxn]

Init ==
    /\ Fresh
    /\ API_KEY_AUTH_ENABLED \in BOOLEAN
    /\ auditDown = FALSE
    /\ storeDown = FALSE
    /\ RATE_LIMIT_PERIOD = "minute"


\* The bounds of the model: room for one more audit event, token and
\* timestamp.
Room ==
    /\ Len(audit) < MaxAudit
    /\ nextKey <= MaxAudit
    /\ now <= MaxAudit

\* --------------------------------------------- Credential Lifecycle Manager
\* secrets.token_urlsafe(32): a token no earlier call returned; the tokens are
\* numbered in the order they are handed out.
generate_api_key == nextKey

\* Mutant: the lookup leaves out deactivated rows.
NameTakenAmongActive(view, name) ==
    \E i \in DOMAIN view : view[i].is_active /\ view[i].name = name

\* select(APIKey).where(APIKey.name == name).first() finds a row.
NameTaken(view, name) == \E i \in DOMAIN view : view[i].name = name

create_api_key(db, name, role, created_by) ==
    LET view == View(db)
        key == generate_api_key
        id == Len(store) + 1 IN
    IF NameTaken(view, name)
    THEN \* ValueError(f"API key with name '{name}' already exists")
         /\ last' = Outcome("create", None, None, ValueError, None, name, FALSE)
         /\ UNCHANGED <<store, pending, audit, now, nextKey, API_KEY_AUTH_ENABLED,
                        plaintextOf, issuedWith>>
    ELSE IF storeDown
    THEN \* db.commit() raises
         /\ last' = StoreFailure("create", None, None)
         /\ UNCHANGED <<store, pending, audit, now, nextKey, API_KEY_AUTH_ENABLED,
                        plaintextOf, issuedWith>>
    ELSE /\ Room
         /\ nextKey' = nextKey + 1
         \* db.add; db.commit (writes the session's pending changes too); db.refresh
         /\ store' = Append(AsSeq(view), APIKey(hash_api_key(key), name, role, created_by, now))
         /\ audit' = audit_log(audit, "create_api_key", Str(created_by), "success")
         \* api_key.key = key, after the commit
         /\ pending' = [pending EXCEPT ![db] = {<<id, key>>}]
         /\ plaintextOf' = Append(plaintextOf, key)
         /\ issuedWith' = Append(issuedWith, key)
         /\ now' = now + 1
         /\ last' = Outcome("create", id, key, id, None, name, FALSE)
         /\ UNCHANGED API_KEY_AUTH_ENABLED

Create ==
    /\ last = Idle
    /\ UNCHANGED <<auditDown, storeDown, rateVars, txn>>
    /\ \E db \in Sessions, name \in Names, role \in Roles, by \in Users :
          create_api_key(db, name, role, by)

\* rotate_api_key: db.get, a fresh token, its digest assigned and committed,
\* the audit event, then api_key.key = new_key on the session's object.
rotate_api_key(db, key_id, rotated_by) ==
    LET view == View(db)
        new_key == generate_api_key IN
    IF key_id \notin Ids
    THEN /\ last' = Result("rotate", key_id, None, None)
         /\ UNCHANGED <<store, pending, audit, now, nextKey, API_KEY_AUTH_ENABLED,
                        plaintextOf, issuedWith>>
    ELSE IF storeDown
    THEN \* db.commit() raises
         /\ last' = StoreFailure("rotate", key_id, None)
         /\ UNCHANGED <<store, pending, audit, now, nextKey, API_KEY_AUTH_ENABLED,
                        plaintextOf, issuedWith>>
    ELSE /\ Room
         /\ nextKey' = nextKey + 1
         /\ store' = [AsSeq(view) EXCEPT ![key_id].key = hash_api_key(new_key)]
         /\ audit' = audit_log(audit, "rotate_api_key", Str(rotated_by), "success")
         /\ pending' = [pending EXCEPT ![db] = {<<key_id, new_key>>}]
         /\ plaintextOf' = [plaintextOf EXCEPT ![key_id] = new_key]
         /\ last' = Result("rotate", key_id, new_key, key_id)
         /\ UNCHANGED <<now, API_KEY_AUTH_ENABLED, issuedWith>>

Rotate ==
    /\ last = Idle
    /\ UNCHANGED <<auditDown, storeDown, rateVars, txn>>
    /\ \E db \in Sessions, key_id \in 1..(Len(store) + 1) :
          rotate_api_key(db, key_id, None)

\* Mutant: the audit call sits after the if, so an unknown id is audited too.
deactivate_api_key_AuditsUnknown(db, key_id, deactivated_by) ==
    LET view == View(db)
        found == key_id \in Ids IN
    /\ Room
    /\ store' = IF found THEN [AsSeq(view) EXCEPT ![key_id].is_active = FALSE] ELSE store
    /\ pending' = IF found THEN [pending EXCEPT ![db] = {}] ELSE pending
    /\ audit' = audit_log(audit, "deactivate_api_key", Str(deactivated_by), "success")
    /\ last' = Result("deactivate", key_id, None, found)
    /\ UNCHANGED <<now, nextKey, API_KEY_AUTH_ENABLED, plaintextOf, issuedWith>>

\* Mutant: the audit event is written inside the transaction, so a failed
\* audit write rolls the deactivation back and the call reports failure.
deactivate_api_key_AuditInTransaction(db, key_id, deactivated_by) ==
    LET view == View(db)
        done == key_id \in Ids /\ ~auditDown IN
    /\ key_id \in Ids => Room
    /\ store' = IF done THEN [AsSeq(view) EXCEPT ![key_id].is_active = FALSE] ELSE store
    /\ pending' = IF done THEN [pending EXCEPT ![db] = {}] ELSE pending
    /\ audit' = IF done
                 THEN audit_log(audit, "deactivate_api_key", Str(deactivated_by), "success")
                 ELSE audit
    /\ last' = Result("deactivate", key_id, None, done)
    /\ UNCHANGED <<now, nextKey, API_KEY_AUTH_ENABLED, plaintextOf, issuedWith>>

\* Mutant: the row is deleted (db.delete) instead of flagged.
deactivate_api_key_Deletes(db, key_id, deactivated_by) ==
    LET found == key_id \in Ids IN
    /\ Room
    /\ store' = IF found
                 THEN [i \in 1..(Len(store) - 1) |->
                          IF i < key_id THEN store[i] ELSE store[i + 1]]
                 ELSE store
    /\ pending' = [s \in Sessions |-> {}]
    /\ audit' = IF found
                 THEN audit_log(audit, "deactivate_api_key", Str(deactivated_by), "success")
                 ELSE audit
    /\ last' = Result("deactivate", key_id, None, found)
    /\ UNCHANGED <<now, nextKey, API_KEY_AUTH_ENABLED, plaintextOf, issuedWith>>

\* deactivate_api_key: found rows are set inactive, committed and audited
\* whatever their flag was; True when found, False when not.
deactivate_api_key(db, key_id, deactivated_by) ==
    LET view == View(db) IN
    IF key_id \notin Ids
    THEN /\ last' = Result("deactivate", key_id, None, FALSE)
         /\ UNCHANGED <<store, pending, audit, now, nextKey, API_KEY_AUTH_ENABLED,
                        plaintextOf, issuedWith>>
    ELSE IF storeDown
    THEN \* db.commit() raises
         /\ last' = StoreFailure("deactivate", key_id, None)
         /\ UNCHANGED <<store, pending, audit, now, nextKey, API_KEY_AUTH_ENABLED,
                        plaintextOf, issuedWith>>
    ELSE /\ Room
         /\ store' = [AsSeq(view) EXCEPT ![key_id].is_active = FALSE]
         /\ pending' = [pending EXCEPT ![db] = {}]
         /\ audit' = audit_log(audit, "deactivate_api_key", Str(deactivated_by), "success")
         /\ last' = Result("deactivate", key_id, None, TRUE)
         /\ UNCHANGED <<now, nextKey, API_KEY_AUTH_ENABLED, plaintextOf, issuedWith>>

Deactivate ==
    /\ last = Idle
    /\ UNCHANGED <<auditDown, storeDown, rateVars, txn>>
    /\ \E db \in Sessions, key_id \in 1..(Len(store) + 1) :
          deactivate_api_key(db, key_id, None)

reactivate_api_key(db, key_id, reactivated_by) ==
    LET view == View(db) IN
    IF key_id \notin Ids
    THEN /\ last' = Result("reactivate", key_id, None, FALSE)
         /\ UNCHANGED <<store, pending, audit, now, nextKey, API_KEY_AUTH_ENABLED,
                        plaintextOf, issuedWith>>
    ELSE IF storeDown
    THEN \* db.commit() raises
         /\ last' = StoreFailure("reactivate", key_id, None)
         /\ UNCHANGED <<store, pending, audit, now, nextKey, API_KEY_AUTH_ENABLED,
                        plaintextOf, issuedWith>>
    ELSE /\ Room
         /\ store' = [AsSeq(view) EXCEPT ![key_id].is_active = TRUE]
         /\ pending' = [pending EXCEPT ![db] = {}]
         /\ audit' = audit_log(audit, "reactivate_api_key", Str(reactivated_by), "success")
         /\ last' = Result("reactivate", key_id, None, TRUE)
         /\ UNCHANGED <<now, nextKey, API_KEY_AUTH_ENABLED, plaintextOf, issuedWith>>

Reactivate ==
    /\ last = Idle
    /\ UNCHANGED <<auditDown, storeDown, rateVars, txn>>
    /\ \E db \in Sessions, key_id \in 1..(Len(store) + 1) :
          reactivate_api_key(db, key_id, None)

\* verify_api_key: the scan; on a match last_used is set and committed and
\* the use audited; no match returns None; a malformed key raises.
verify_api_key(db, key) ==
    LET view == View(db)
        m == Scan(view, key, 1) IN
    IF m \in {None, ValueError}
    THEN /\ last' = Result("verify", None, key, m)
         /\ UNCHANGED <<store, pending, audit, now, nextKey, API_KEY_AUTH_ENABLED,
                        plaintextOf, issuedWith>>
    ELSE IF storeDown
    THEN \* db.commit() raises
         /\ last' = StoreFailure("verify", None, key)
         /\ UNCHANGED <<store, pending, audit, now, nextKey, API_KEY_AUTH_ENABLED,
                        plaintextOf, issuedWith>>
    ELSE /\ Room
         /\ store' = [AsSeq(view) EXCEPT ![m].last_used = now]
         /\ pending' = [pending EXCEPT ![db] = {}]
         /\ audit' = audit_log(audit, "api_key_used", Str(m), "success")
         /\ now' = now + 1
         /\ last' = Result("verify", None, key, m)
         /\ UNCHANGED <<nextKey, API_KEY_AUTH_ENABLED, plaintextOf, issuedWith>>

Verify ==
    /\ last = Idle
    /\ UNCHANGED <<auditDown, storeDown, rateVars, txn>>
    /\ \E db \in Sessions, key \in (1..(nextKey - 1)) \cup {Bogus} :
          verify_api_key(db, key)

\* The caller ends a session: close() drops what was never committed.
CloseSession ==
    /\ last = Idle
    /\ UNCHANGED <<auditDown, storeDown, rateVars, txn>>
    /\ \E db \in Sessions :
          /\ txn[db] = NoTxn
          /\ pending[db] # {}
          /\ pending' = [pending EXCEPT ![db] = {}]
          /\ UNCHANGED <<store, audit, now, nextKey, API_KEY_AUTH_ENABLED,
                         plaintextOf, issuedWith, last>>

\* The operation returns: its caller takes the result and may call again.
Return ==
    /\ last # Idle
    /\ UNCHANGED <<auditDown, storeDown, rateVars, txn>>
    /\ last' = Idle
    /\ UNCHANGED <<store, pending, audit, now, nextKey, API_KEY_AUTH_ENABLED,
                   plaintextOf, issuedWith>>

\* ------------------------------------------------------------ HTTP routes
\* The HTTPExceptions of get_api_key and require_admin: status and detail.
KeyRequired == <<HTTP_403_FORBIDDEN, "API key required">>
KeyInvalid == <<HTTP_403_FORBIDDEN, "Invalid API key">>

\* Mutant: the admin gate raises with the detail of an unmatched key.
AdminRequiredAsKeyInvalid == KeyInvalid

AdminRequired == <<HTTP_403_FORBIDDEN, "Admin access required">>

\* Mutant: the dependency never looks at the switch.
AuthDisabledNever == FALSE

\* if not settings.API_KEY_AUTH_ENABLED: return None
AuthDisabled == ~API_KEY_AUTH_ENABLED

\* get_api_key followed by the body of a conversion route (convert_text): the
\* dependency runs on a session of its own, opened for the request.
\* api_key is the X-API-Key header (None when absent).  What the external
\* converter answers once the handler body runs is not part of the state.
convert_text(api_key) ==
    LET view == Committed
        m == Scan(view, api_key, 1)
        done == 200 IN
    IF AuthDisabled
    THEN \* get_api_key returns None; the handler runs and audits the conversion
         /\ Room
         /\ audit' = audit_log(audit, "convert_text", Raw(None), "success")
         /\ last' = Outcome("convert", None, api_key, None, done, "", TRUE)
         /\ UNCHANGED <<store, pending, now, nextKey, API_KEY_AUTH_ENABLED,
                        plaintextOf, issuedWith>>
    ELSE IF api_key = None
    THEN /\ last' = Outcome("convert", None, api_key, None, KeyRequired[1],
                            KeyRequired[2], FALSE)
         /\ UNCHANGED <<store, pending, audit, now, nextKey, API_KEY_AUTH_ENABLED,
                        plaintextOf, issuedWith>>
    ELSE IF m = ValueError
    THEN \* verify_key_hash raised inside the dependency: an unhandled error
         /\ last' = Outcome("convert", None, api_key, None, 500, "", FALSE)
         /\ UNCHANGED <<store, pending, audit, now, nextKey, API_KEY_AUTH_ENABLED,
                        plaintextOf, issuedWith>>
    ELSE IF m = None
    THEN /\ Room
         /\ audit' = audit_log(audit, "api_key_invalid", Raw(None), "failure")
         /\ last' = Outcome("convert", None, api_key, None, KeyInvalid[1],
                            KeyInvalid[2], FALSE)
         /\ UNCHANGED <<store, pending, now, nextKey, API_KEY_AUTH_ENABLED,
                        plaintextOf, issuedWith>>
    ELSE IF storeDown
    THEN \* db.commit() raises inside the dependency: an unhandled error
         /\ last' = Outcome("convert", None, api_key, None, 500, "", FALSE)
         /\ UNCHANGED <<store, pending, audit, now, nextKey, API_KEY_AUTH_ENABLED,
                        plaintextOf, issuedWith>>
    ELSE /\ Room
         /\ Len(audit) + 1 < MaxAudit
         /\ store' = [AsSeq(view) EXCEPT ![m].last_used = now]
         /\ now' = now + 1
         /\ audit' = audit_log(audit_log(audit, "api_key_used", Str(m), "success"),
                               "convert_text", Raw(m), "success")
         /\ last' = Outcome("convert", None, api_key, m, done, "", TRUE)
         /\ UNCHANGED <<pending, nextKey, API_KEY_AUTH_ENABLED, plaintextOf, issuedWith>>

ConvertText ==
    /\ last = Idle
    /\ UNCHANGED <<auditDown, storeDown, rateVars, txn>>
    /\ \E api_key \in {None} \cup (1..(nextKey - 1)) \cup {Bogus} :
          convert_text(api_key)

\* Mutant: the check asks for a credential and forgets its role.
DeniesAbsentOnly(api_key) == API_KEY_AUTH_ENABLED /\ api_key = None

\* The condition under which require_admin refuses.  api_key is None or a
\* credential object (here the id of its row; its role is the row's).
Denies(api_key) ==
    API_KEY_AUTH_ENABLED /\ (api_key = None \/ store[api_key].role # "admin")

require_admin(api_key) ==
    IF Denies(api_key)
    THEN /\ Room
         /\ audit' = audit_log(audit, "admin_access_denied",
                               IF api_key # None THEN Str(api_key) ELSE Raw(None),
                               "failure")
         /\ last' = Outcome("require_admin", api_key, None, None, AdminRequired[1],
                            AdminRequired[2], FALSE)
         /\ UNCHANGED <<store, pending, now, nextKey, API_KEY_AUTH_ENABLED,
                        plaintextOf, issuedWith>>
    ELSE /\ last' = Outcome("require_admin", api_key, None, api_key, None, "", FALSE)
         /\ UNCHANGED <<store, pending, audit, now, nextKey, API_KEY_AUTH_ENABLED,
                        plaintextOf, issuedWith>>

RequireAdmin ==
    /\ last = Idle
    /\ UNCHANGED <<auditDown, storeDown, rateVars, txn>>
    /\ \E api_key \in {None} \cup Ids :
          require_admin(api_key)

\* -------------------------------------------------------------- CLI commands
\* `deactivate KEY_ID`: proceed is --force or the user's yes to the prompt.
\* The command works on a session of its own (get_db_session).
cli_deactivate(key_id, proceed) ==
    IF key_id \notin Ids
    THEN /\ last' = Outcome("cli_deactivate", key_id, None, None, None, "not found", FALSE)
         /\ UNCHANGED <<store, pending, audit, now, nextKey, API_KEY_AUTH_ENABLED,
                        plaintextOf, issuedWith>>
    ELSE IF ~store[key_id].is_active
    THEN /\ last' = Outcome("cli_deactivate", key_id, None, None, None, "already inactive", FALSE)
         /\ UNCHANGED <<store, pending, audit, now, nextKey, API_KEY_AUTH_ENABLED,
                        plaintextOf, issuedWith>>
    ELSE IF ~proceed
    THEN /\ last' = Outcome("cli_deactivate", key_id, None, None, None, "", FALSE)
         /\ UNCHANGED <<store, pending, audit, now, nextKey, API_KEY_AUTH_ENABLED,
                        plaintextOf, issuedWith>>
    ELSE IF storeDown
    THEN \* db.commit() raises; the except clause prints the error and exits with 1
         /\ last' = Outcome("cli_deactivate", key_id, None, None, 1, "Error", FALSE)
         /\ UNCHANGED <<store, pending, audit, now, nextKey, API_KEY_AUTH_ENABLED,
                        plaintextOf, issuedWith>>
    ELSE /\ Room
         /\ store' = [store EXCEPT ![key_id].is_active = FALSE]
         /\ audit' = audit_log(audit, "API_KEY_DEACTIVATED", Str(key_id), "success")
         /\ last' = Outcome("cli_deactivate", key_id, None, None, None,
                            "Successfully deactivated", FALSE)
         /\ UNCHANGED <<pending, now, nextKey, API_KEY_AUTH_ENABLED,
                        plaintextOf, issuedWith>>

CliDeactivate ==
    /\ last = Idle
    /\ UNCHANGED <<auditDown, storeDown, rateVars, txn>>
    /\ \E key_id \in 1..(Len(store) + 1), proceed \in BOOLEAN :
          cli_deactivate(key_id, proceed)

\* `reactivate KEY_ID`: the command sets is_active and prints success; it
\* neither commits nor audits.  Whether the assignment reaches the table is
\* left to the exit of get_db_session (commitsOnExit).
cli_reactivate(key_id, proceed, commitsOnExit) ==
    IF ~proceed
    THEN \* typer.Abort() is caught by the command's own except clause
         /\ last' = Outcome("cli_reactivate", key_id, None, None, 1, "Error", FALSE)
         /\ UNCHANGED <<store, pending, audit, now, nextKey, API_KEY_AUTH_ENABLED,
                        plaintextOf, issuedWith>>
    ELSE IF key_id \notin Ids
    THEN /\ last' = Outcome("cli_reactivate", key_id, None, None, 1, "not found", FALSE)
         /\ UNCHANGED <<store, pending, audit, now, nextKey, API_KEY_AUTH_ENABLED,
                        plaintextOf, issuedWith>>
    ELSE IF commitsOnExit /\ storeDown
    THEN \* the success panel is printed inside the with block; the commit at
         \* its exit raises and the except clause exits with 1
         /\ last' = Outcome("cli_reactivate", key_id, None, None, 1,
                            "Successfully reactivated", FALSE)
         /\ UNCHANGED <<store, pending, audit, now, nextKey, API_KEY_AUTH_ENABLED,
                        plaintextOf, issuedWith>>
    ELSE /\ store' = IF commitsOnExit
                     THEN [store EXCEPT ![key_id].is_active = TRUE]
                     ELSE store
         /\ last' = Outcome("cli_reactivate", key_id, None, None, None,
                            "Successfully reactivated", FALSE)
         /\ UNCHANGED <<pending, audit, now, nextKey, API_KEY_AUTH_ENABLED,
                        plaintextOf, issuedWith>>

CliReactivate ==
    /\ last = Idle
    /\ UNCHANGED <<auditDown, storeDown, rateVars, txn>>
    /\ \E key_id \in 1..(Len(store) + 1), proceed \in BOOLEAN, commitsOnExit \in BOOLEAN :
          cli_reactivate(key_id, proceed, commitsOnExit)

\* ------------------------------------------------- Concurrent operations
\* The core functions called by concurrent callers, each on its own session.
\* A function reads (db.get, db.exec), assigns to the objects it read and
\* commits; the commit writes the columns the session assigned to and no
\* others.  Between the read and the commit other sessions may commit.
InProgress(op, id, key, match) == [op |-> op, id |-> id, key |-> key, match |-> match]

\* What session db's commit writes: its pending key assignments.
Flushed(db) == AsSeq(View(db))

\* verify_api_key up to the assignment of last_used: the scan.
begin_verify(db, key) ==
    LET m == Scan(View(db), key, 1) IN
    /\ txn[db] = NoTxn
    /\ IF m \in {None, ValueError}
       THEN /\ last = Idle
            /\ last' = Result("verify", None, key, m)
            /\ UNCHANGED txn
       ELSE /\ txn' = [txn EXCEPT ![db] = InProgress("verify", m, key, m)]
            /\ UNCHANGED last
    /\ UNCHANGED <<credVars, config, audit, rateVars>>

\* Mutant: the commit writes the whole row as the scan read it, active flag
\* included.
commit_verify_WritesWholeRow(db) ==
    LET m == txn[db].match IN
    /\ txn[db].op = "verify"
    /\ last = Idle
    /\ Len(audit) < MaxAudit
    /\ store' = [Flushed(db) EXCEPT ![m].last_used = now, ![m].is_active = TRUE]
    /\ pending' = [pending EXCEPT ![db] = {}]
    /\ audit' = audit_log(audit, "api_key_used", Str(m), "success")
    /\ now' = now + 1
    /\ last' = Result("verify", None, txn[db].key, m)
    /\ txn' = [txn EXCEPT ![db] = NoTxn]
    /\ UNCHANGED <<nextKey, plaintextOf, issuedWith, config, rateVars>>

\* verify_api_key from db.commit() on.
commit_verify(db) ==
    LET m == txn[db].match IN
    /\ txn[db].op = "verify"
    /\ last = Idle
    /\ Len(audit) < MaxAudit
    /\ store' = [Flushed(db) EXCEPT ![m].last_used = now]
    /\ pending' = [pending EXCEPT ![db] = {}]
    /\ audit' = audit_log(audit, "api_key_used", Str(m), "success")
    /\ now' = now + 1
    /\ last' = Result("verify", None, txn[db].key, m)
    /\ txn' = [txn EXCEPT ![db] = NoTxn]
    /\ UNCHANGED <<nextKey, plaintextOf, issuedWith, config, rateVars>>

\* rotate_api_key and deactivate_api_key up to their assignment: db.get.
begin_change(db, op, key_id) ==
    /\ txn[db] = NoTxn
    /\ IF key_id \notin Ids
       THEN /\ last = Idle
            /\ last' = Result(op, key_id, None, IF op = "rotate" THEN None ELSE FALSE)
            /\ UNCHANGED txn
       ELSE /\ txn' = [txn EXCEPT ![db] = InProgress(op, key_id, None, None)]
            /\ UNCHANGED last
    /\ UNCHANGED <<credVars, config, audit, rateVars>>

\* rotate_api_key from generate_api_key() on.
commit_rotate(db) ==
    LET key_id == txn[db].id
        new_key == generate_api_key IN
    /\ txn[db].op = "rotate"
    /\ last = Idle
    /\ Len(audit) < MaxAudit
    /\ nextKey' = nextKey + 1
    /\ store' = [Flushed(db) EXCEPT ![key_id].key = hash_api_key(new_key)]
    /\ audit' = audit_log(audit, "rotate_api_key", Str(None), "success")
    /\ pending' = [pending EXCEPT ![db] = {<<key_id, new_key>>}]
    /\ plaintextOf' = [plaintextOf EXCEPT ![key_id] = new_key]
    /\ last' = Result("rotate", key_id, new_key, key_id)
    /\ txn' = [txn EXCEPT ![db] = NoTxn]
    /\ UNCHANGED <<now, issuedWith, config, rateVars>>

\* deactivate_api_key from api_key.is_active = False on.
commit_deactivate(db) ==
    LET key_id == txn[db].id IN
    /\ txn[db].op = "deactivate"
    /\ last = Idle
    /\ Len(audit) < MaxAudit
    /\ store' = [Flushed(db) EXCEPT ![key_id].is_active = FALSE]
    /\ pending' = [pending EXCEPT ![db] = {}]
    /\ audit' = audit_log(audit, "deactivate_api_key", Str(None), "success")
    /\ last' = Result("deactivate", key_id, None, TRUE)
    /\ txn' = [txn EXCEPT ![db] = NoTxn]
    /\ UNCHANGED <<now, nextKey, plaintextOf, issuedWith, config, rateVars>>

BeginVerify ==
    \E db \in Sessions, key \in (1..(nextKey - 1)) \cup {Bogus} : begin_verify(db, key)

CommitVerify == \E db \in Sessions : commit_verify(db)

BeginRotate ==
    \E db \in Sessions, key_id \in 1..(Len(store) + 1) : begin_change(db, "rotate", key_id)

CommitRotate == \E db \in Sessions : commit_rotate(db)

BeginDeactivate ==
    \E db \in Sessions, key_id \in 1..(Len(store) + 1) : begin_change(db, "deactivate", key_id)

CommitDeactivate == \E db \in Sessions : commit_deactivate(db)

\* create_api_key up to the construction of the row: the lookup by name.
Creating(name, role) ==
    [op |-> "create", id |-> None, key |-> None, match |-> None,
     name |-> name, role |-> role]

begin_create(db, name, role) ==
    /\ txn[db] = NoTxn
    /\ IF NameTaken(View(db), name)
       THEN /\ last = Idle
            /\ last' = Outcome("create", None, None, ValueError, None, name, FALSE)
            /\ UNCHANGED txn
       ELSE /\ txn' = [txn EXCEPT ![db] = Creating(name, role)]
            /\ UNCHANGED last
    /\ UNCHANGED <<credVars, config, audit, rateVars>>

\* create_api_key from generate_api_key() on.  The table definition is not
\* part of the sources: `unique` says whether it rejects a second row of the
\* same name (IntegrityError at the commit) or takes it.
commit_create(db, unique) ==
    LET name == txn[db].name
        key == generate_api_key
        id == Len(store) + 1 IN
    /\ txn[db].op = "create"
    /\ last = Idle
    /\ Room
    /\ txn' = [txn EXCEPT ![db] = NoTxn]
    /\ IF unique /\ NameTaken(Committed, name)
       THEN /\ last' = Outcome("create", None, None, None, None, "IntegrityError", FALSE)
            /\ UNCHANGED <<credVars, audit>>
       ELSE /\ nextKey' = nextKey + 1
            /\ store' = Append(Flushed(db),
                               APIKey(hash_api_key(key), name, txn[db].role, AdminUser, now))
            /\ audit' = audit_log(audit, "create_api_key", Str(AdminUser), "success")
            /\ pending' = [pending EXCEPT ![db] = {<<id, key>>}]
            /\ plaintextOf' = Append(plaintextOf, key)
            /\ issuedWith' = Append(issuedWith, key)
            /\ now' = now + 1
            /\ last' = Outcome("create", id, key, id, None, name, FALSE)
    /\ UNCHANGED <<config, rateVars>>

BeginCreate ==
    \E db \in Sessions, name \in Names, role \in Roles : begin_create(db, name, role)

CommitCreate == \E db \in Sessions, unique \in BOOLEAN : commit_create(db, unique)

\* Concurrent issuers on an empty table.
NextIssue ==
    \/ BeginCreate
    \/ CommitCreate
    \/ CloseSession
    \/ Return

SpecIssue == Init /\ [][NextIssue]_vars

\* The service runs on a table that holds two credentials issued earlier,
\* "a" (USER) and "b" (ADMIN), by sessions that are closed; the trail of this
\* run is empty.
InitConc ==
    /\ store = <<APIKey(hash_api_key(1), "a", "user", AdminUser, 1),
                 APIKey(hash_api_key(2), "b", "admin", AdminUser, 2)>>
    /\ pending = [s \in Sessions |-> {}]
    /\ audit = <<>>
    /\ now = 3
    /\ nextKey = 3
    /\ plaintextOf = <<1, 2>>
    /\ issuedWith = <<1, 2>>
    /\ last = Idle
    /\ API_KEY_AUTH_ENABLED = TRUE
    /\ auditDown = FALSE
    /\ storeDown = FALSE
    /\ RATE_LIMIT_PERIOD = "minute"
    /\ clock = 0
    /\ ticks = 0
    /\ window = NoWindow
    /\ requests = NoRequests
    /\ txn = [s \in Sessions |-> NoTxn]

NextConc ==
    \/ BeginVerify
    \/ CommitVerify
    \/ BeginRotate
    \/ CommitRotate
    \/ BeginDeactivate
    \/ CommitDeactivate
    \/ CloseSession
    \/ Return

SpecConc == InitConc /\ [][NextConc]_vars

\* A verification racing a deactivation.
NextRace ==
    \/ BeginVerify
    \/ CommitVerify
    \/ BeginDeactivate
    \/ CommitDeactivate
    \/ Return

SpecRace == InitConc /\ [][NextRace]_vars

\* ----------------------------------------------------------- Rate limiting
\* The limit of the conversion routes, "RATE_LIMIT_REQUESTS/RATE_LIMIT_PERIOD".
RATE_LIMIT_REQUESTS == 2

Periods == {"second", "minute", "hour"}

\* window_seconds of custom_rate_limit_handler and get_rate_limit_headers.
window_seconds ==
    IF RATE_LIMIT_PERIOD = "minute" THEN 60
    ELSE IF RATE_LIMIT_PERIOD = "hour" THEN 3600
    ELSE 60

\* Mutant: the denial is answered without the Retry-After header.
DenialHeaders_NoRetryAfter ==
    [limit |-> RATE_LIMIT_REQUESTS, remaining |-> 0, reset |-> clock + window_seconds]

\* The headers of the 429 response: X-RateLimit-Limit, X-RateLimit-Remaining,
\* X-RateLimit-Reset and Retry-After.
DenialHeaders ==
    [limit |-> RATE_LIMIT_REQUESTS, remaining |-> 0,
     reset |-> clock + window_seconds, retry_after |-> window_seconds]

\* Mutant: the event carries the time of the denial as its reset time.
RateLimitDetails_ResetIsNow ==
    [client_ip |-> "caller", path |-> "/convert/text", reset_time |-> clock]

\* The details of the RATE_LIMIT_EXCEEDED event: get_remote_address(request),
\* request.url.path and window_reset.  The model has one caller and one route.
RateLimitDetails ==
    [client_ip |-> "caller", path |-> "/convert/text",
     reset_time |-> clock + window_seconds]

\* custom_rate_limit_handler: the audit event, then the 429 response.
custom_rate_limit_handler ==
    /\ audit' = audit_log_details(audit, "RATE_LIMIT_EXCEEDED", Raw(None), "failure",
                                  RateLimitDetails)
    /\ last' = Outcome("limited", None, None, DenialHeaders, 429,
                       "Rate limit exceeded", FALSE)

\* The limiter raised RateLimitExceeded for a request.
RateLimitExceeded ==
    /\ last = Idle
    /\ Len(audit) < MaxAudit
    /\ custom_rate_limit_handler
    /\ UNCHANGED <<credVars, config, rateVars, txn>>

\* The seconds of the period of the limit string "N/period" the routes are
\* decorated with.
PeriodSeconds ==
    IF RATE_LIMIT_PERIOD = "second" THEN 1
    ELSE IF RATE_LIMIT_PERIOD = "minute" THEN 60
    ELSE 3600

\* Mutant: an increment is lost when another request is being checked at the
\* same time (read, increment, write without a lock).
hit_Racy(w, t) ==
    IF w = NoWindow \/ t >= w.start + PeriodSeconds
    THEN [start |-> t, count |-> 1]
    ELSE IF requests.inflight > 1 THEN w
    ELSE [w EXCEPT !.count = @ + 1]

\* check(key, route): no window or an expired one starts a new window with
\* count 1; otherwise the count is incremented.  One atomic step.
hit(w, t) ==
    IF w = NoWindow \/ t >= w.start + PeriodSeconds
    THEN [start |-> t, count |-> 1]
    ELSE [w EXCEPT !.count = @ + 1]

\* The headers convert_text adds to its response (get_rate_limit_headers):
\* nothing under src/ sets request.state.view_rate_limit_remaining.
get_rate_limit_headers ==
    [limit |-> RATE_LIMIT_REQUESTS, remaining |-> 0,
     reset |-> clock + window_seconds, retry_after |-> window_seconds]

\* time.time() moves on.
Tick ==
    /\ ticks < MaxTicks
    /\ \E d \in {1, PeriodSeconds - 1, PeriodSeconds} :
          /\ d > 0
          /\ clock' = clock + d
    /\ ticks' = ticks + 1
    /\ UNCHANGED <<credVars, config, audit, last, window, requests, txn>>

\* A request of the caller reaches the service.
Arrive ==
    /\ Len(audit) + requests.inflight + requests.running
          < RATE_LIMIT_REQUESTS + MaxExcess + 1
    /\ requests.inflight + requests.running + requests.allowed + requests.denied
          < RATE_LIMIT_REQUESTS + MaxExcess
    /\ requests' = [requests EXCEPT !.inflight = @ + 1]
    /\ UNCHANGED <<credVars, config, audit, last, clock, ticks, window, txn>>

\* @limiter.limit on the route: the limiter counts the request and lets it
\* through to the handler, or raises RateLimitExceeded, which
\* custom_rate_limit_handler answers.
Check ==
    LET w == hit(window, clock)
        fresh == w.count = 1 IN
    /\ requests.inflight > 0
    /\ window' = w
    /\ IF w.count > RATE_LIMIT_REQUESTS
       THEN /\ custom_rate_limit_handler
            /\ requests' = [requests EXCEPT !.inflight = @ - 1, !.denied = @ + 1]
       ELSE /\ requests' = [inflight |-> requests.inflight - 1,
                            running |-> requests.running + 1,
                            allowed |-> IF fresh THEN 1 ELSE requests.allowed + 1,
                            denied |-> IF fresh THEN 0 ELSE requests.denied]
            /\ UNCHANGED <<audit, last>>
    /\ UNCHANGED <<credVars, config, clock, ticks, txn>>

\* The handler of an admitted request completes (authentication disabled):
\* the conversion is audited and the response carries the limit headers.
Finish ==
    /\ requests.running > 0
    /\ requests' = [requests EXCEPT !.running = @ - 1]
    /\ audit' = audit_log(audit, "convert_text", Raw(None), "success")
    /\ last' = Outcome("served", None, None, get_rate_limit_headers, 200, "", TRUE)
    /\ UNCHANGED <<credVars, config, clock, ticks, window, txn>>

InitRate ==
    /\ Fresh
    /\ API_KEY_AUTH_ENABLED = FALSE
    /\ auditDown = FALSE
    /\ storeDown = FALSE
    /\ RATE_LIMIT_PERIOD \in Periods

NextRate ==
    \/ Tick
    \/ Arrive
    \/ Check
    \/ Finish

SpecRate == InitRate /\ [][NextRate]_vars

\* ------------------------------------------------ A request as it is served
\* POST /convert/text with the limit in force.  FastAPI resolves the
\* dependencies of the route (get_api_key) before it calls the endpoint
\* function; the endpoint function is the wrapper @limiter.limit put around
\* convert_text, which counts the request and then calls the body.  So the
\* verifier runs first, the limiter second, the body last.
served_convert_text(api_key) ==
    LET m == IF AuthDisabled \/ api_key = None THEN None ELSE Scan(Committed, api_key, 1)
        w == hit(window, clock)
        trail == IF m = None THEN audit
                 ELSE audit_log(audit, "api_key_used", Str(m), "success") IN
    IF ~AuthDisabled /\ api_key = None
    THEN /\ last' = Outcome("convert", None, api_key, None, KeyRequired[1],
                            KeyRequired[2], FALSE)
         /\ UNCHANGED <<store, now, audit, window>>
    ELSE IF m = ValueError
    THEN /\ last' = Outcome("convert", None, api_key, None, 500, "", FALSE)
         /\ UNCHANGED <<store, now, audit, window>>
    ELSE IF ~AuthDisabled /\ m = None
    THEN /\ audit' = audit_log(audit, "api_key_invalid", Raw(None), "failure")
         /\ last' = Outcome("convert", None, api_key, None, KeyInvalid[1],
                            KeyInvalid[2], FALSE)
         /\ UNCHANGED <<store, now, window>>
    ELSE \* get_api_key returned: the credential m, or None with the switch off
         /\ store' = IF m = None THEN store ELSE [store EXCEPT ![m].last_used = now]
         /\ now' = IF m = None THEN now ELSE now + 1
         /\ window' = w
         /\ IF w.count > RATE_LIMIT_REQUESTS
            THEN \* RateLimitExceeded, answered by custom_rate_limit_handler
                 /\ audit' = audit_log_details(trail, "RATE_LIMIT_EXCEEDED", Raw(None),
                                               "failure", RateLimitDetails)
                 /\ last' = Outcome("limited", None, api_key, DenialHeaders, 429,
                                    "Rate limit exceeded", FALSE)
            ELSE /\ audit' = audit_log(trail, "convert_text", Raw(m), "success")
                 /\ last' = Outcome("convert", None, api_key, m, 200, "", TRUE)

\* Room in the trail for the events of RATE_LIMIT_REQUESTS + 1 requests of an
\* authenticated caller.
GateRoom == Len(audit) + 2 <= 2 * (RATE_LIMIT_REQUESTS + 1)

Serve ==
    /\ last = Idle
    /\ GateRoom
    /\ \E api_key \in {None} \cup (1..(nextKey - 1)) \cup {Bogus} :
          served_convert_text(api_key)
    /\ UNCHANGED <<pending, nextKey, plaintextOf, issuedWith, config,
                   clock, ticks, requests, txn>>

\* The service with the limit in force, on a table that holds two
\* credentials issued earlier.
InitGate ==
    /\ store = <<APIKey(hash_api_key(1), "a", "user", AdminUser, 1),
                 APIKey(hash_api_key(2), "b", "admin", AdminUser, 2)>>
    /\ pending = [s \in Sessions |-> {}]
    /\ audit = <<>>
    /\ now = 3
    /\ nextKey = 3
    /\ plaintextOf = <<1, 2>>
    /\ issuedWith = <<1, 2>>
    /\ last = Idle
    /\ API_KEY_AUTH_ENABLED \in BOOLEAN
    /\ auditDown = FALSE
    /\ storeDown = FALSE
    /\ RATE_LIMIT_PERIOD = "minute"
    /\ clock = 0
    /\ ticks = 0
    /\ window = NoWindow
    /\ requests = NoRequests
    /\ txn = [s \in Sessions |-> NoTxn]

NextGate ==
    \/ Serve
    \/ Tick
    \/ Return

SpecGate == InitGate /\ [][NextGate]_vars

Next ==
    \/ Create
    \/ Rotate
    \/ Deactivate
    \/ Reactivate
    \/ Verify
    \/ ConvertText
    \/ RequireAdmin
    \/ CliDeactivate
    \/ CliReactivate
    \/ CloseSession
    \/ Return

Spec == Init /\ [][Next]_vars

\* The same operations while the table cannot be written, on a table that
\* holds credential "a", issued earlier by session s2, which is still open.
InitStore ==
    /\ store = <<APIKey(hash_api_key(1), "a", "user", AdminUser, 1)>>
    /\ pending = [s \in Sessions |-> IF s = "s2" THEN {<<1, 1>>} ELSE {}]
    /\ audit = <<>>
    /\ now = 2
    /\ nextKey = 2
    /\ plaintextOf = <<1>>
    /\ issuedWith = <<1>>
    /\ last = Idle
    /\ API_KEY_AUTH_ENABLED \in BOOLEAN
    /\ auditDown = FALSE
    /\ storeDown = TRUE
    /\ RATE_LIMIT_PERIOD = "minute"
    /\ clock = 0
    /\ ticks = 0
    /\ window = NoWindow
    /\ requests = NoRequests
    /\ txn = [s \in Sessions |-> NoTxn]

SpecStore == InitStore /\ [][Next]_vars

\* The same operations and the rate-limit handler while the audit store is
\* unavailable.
InitAudit ==
    /\ Fresh
    /\ API_KEY_AUTH_ENABLED \in BOOLEAN
    /\ auditDown = TRUE
    /\ storeDown = FALSE
    /\ RATE_LIMIT_PERIOD = "minute"

NextAudit ==
    \/ Next
    \/ RateLimitExceeded

SpecAudit == InitAudit /\ [][NextAudit]_vars

\* ==================================================================== claims
\* A step of operation op: a call made while no call was in progress left its
\* result in `last`.
IsStep(op) ==
    /\ last = Idle
    /\ last'.op = op

\* Credential c was never rotated: its current plaintext is the issued one.
NeverRotated(c) == plaintextOf[c] = issuedWith[c]

\* C1: verifying with the plaintext returned when credential C was issued (C
\* never rotated since) returns C whenever C is active and returns no
\* credential whenever C is deactivated.
C1_VerifyIssuedPlaintext ==
    \A c \in Ids :
        (last.op = "verify" /\ last.key = issuedWith[c] /\ NeverRotated(c))
            => last.res = (IF store[c].is_active THEN c ELSE None)

\* C2: after rotate(C), verification with C's previous plaintext fails,
\* verification with the plaintext rotate returned succeeds (C active), and
\* rotate leaves C's identifier, name and role as they were.
C2_RotateReplacesSecret ==
    [][ /\ \A c \in Ids :
            (IsStep("verify") /\ ~NeverRotated(c) /\ store[c].is_active) =>
                /\ last'.key = plaintextOf[c] => last'.res = c
                /\ last'.key = issuedWith[c] => last'.res \notin Ids
        /\ (IsStep("rotate") /\ last'.arg \in Ids) =>
                /\ last'.res = last'.arg
                /\ Len(store') = Len(store)
                /\ store'[last'.arg].name = store[last'.arg].name
                /\ store'[last'.arg].role = store[last'.arg].role
      ]_vars

\* C3: in every reachable state the persisted secret field of every record
\* holds a hash, never the plaintext secret.
C3_StoreHoldsOnlyHashes ==
    \A i \in Ids : store[i].key.kind = "bcrypt"

\* C4: issuing a credential whose name is the name of an existing record,
\* active or inactive, fails with the duplicate-name error, adds no record,
\* changes no record and emits no audit event.
C4_DuplicateNameRejected ==
    [][ (IsStep("create") /\ \E i \in Ids : store[i].name = last'.msg) =>
            /\ last'.res = ValueError
            /\ store' = store
            /\ audit' = audit
      ]_vars

\* C4 witness: an issue attempt failed on the name of a deactivated record.
C4_Witness ==
    /\ last.op = "create"
    /\ last.res = ValueError
    /\ \E i \in Ids : store[i].name = last.msg /\ ~store[i].is_active

\* Some active record holds the digest of secret k.
MatchesActive(k) ==
    \E i \in Ids : store[i].is_active /\ store[i].key = hash_api_key(k)

\* C5: with authentication enabled the route handler runs only for a request
\* whose secret the verifier matched to an active credential, and a request
\* with a missing or unmatched secret is answered with the access-denied
\* response without the handler running.
C5_HandlerBehindVerifier ==
    (API_KEY_AUTH_ENABLED /\ last.op = "convert") =>
        /\ last.ran =>
              /\ last.res \in Ids
              /\ store[last.res].is_active
              /\ verify_key_hash(last.key, store[last.res].key) = "True"
        /\ (last.key = None \/ ~MatchesActive(last.key)) =>
              /\ ~last.ran
              /\ last.status = HTTP_403_FORBIDDEN

\* The credential require_admin was given is present and has role ADMIN.
IsAdmin(c) == c # None /\ store[c].role = "admin"

AdminDenied(c) ==
    [action |-> "admin_access_denied",
     user_id |-> IF c # None THEN Str(c) ELSE Raw(None),
     status |-> "failure"]

\* C6 as claimed: requireAdmin fails for every call whose credential is absent
\* or not ADMIN, whatever the authentication switch is, and succeeds only for
\* a present ADMIN credential; each denial emits one audit event carrying the
\* credential's identifier when one was supplied.
C6_AdminOnlyRegardlessOfSwitch ==
    [][ IsStep("require_admin") =>
            IF IsAdmin(last'.arg)
            THEN last'.res = last'.arg /\ last'.status = None /\ audit' = audit
            ELSE /\ last'.status = HTTP_403_FORBIDDEN
                 /\ audit' = Append(audit, AdminDenied(last'.arg))
      ]_vars

\* C6 amended: with authentication enabled requireAdmin fails (403) for every
\* call whose credential is absent or not ADMIN and returns the credential
\* only when it is a present ADMIN one; each denial appends exactly one
\* admin_access_denied event carrying the credential's identifier when one was
\* supplied.  With authentication disabled requireAdmin denies nothing: it
\* returns what it was given and emits no event.
C6_AdminOnlyWhenAuthEnabled ==
    [][ IsStep("require_admin") =>
            IF ~API_KEY_AUTH_ENABLED \/ IsAdmin(last'.arg)
            THEN last'.res = last'.arg /\ last'.status = None /\ audit' = audit
            ELSE /\ last'.status = HTTP_403_FORBIDDEN
                 /\ last'.res = None
                 /\ audit' = Append(audit, AdminDenied(last'.arg))
      ]_vars

\* C6 witness: a USER credential was denied and the denial audited with its id.
C6_Witness ==
    /\ API_KEY_AUTH_ENABLED
    /\ last.op = "require_admin"
    /\ last.arg \in Ids
    /\ store[last.arg].role = "user"
    /\ last.status = HTTP_403_FORBIDDEN
    /\ audit # <<>>
    /\ audit[Len(audit)] = AdminDenied(last.arg)

\* C7: deactivating an already-inactive credential leaves the record
\* unchanged, returns a signal other than the one a state-changing
\* deactivation returns, and emits no audit event; a deactivation that turns
\* an active credential inactive emits exactly one.
C7_DeactivateIdempotent ==
    [][ /\ (IsStep("deactivate") /\ last'.arg \in Ids) =>
              IF store[last'.arg].is_active
              THEN /\ last'.res = TRUE
                   /\ ~store'[last'.arg].is_active
                   /\ Len(audit') = Len(audit) + 1
              ELSE /\ last'.res # TRUE
                   /\ store' = store
                   /\ audit' = audit
        /\ (IsStep("cli_deactivate") /\ last'.arg \in Ids) =>
              IF store[last'.arg].is_active /\ last'.msg = "Successfully deactivated"
              THEN /\ ~store'[last'.arg].is_active
                   /\ Len(audit') = Len(audit) + 1
              ELSE /\ last'.msg # "Successfully deactivated"
                   /\ store' = store
                   /\ audit' = audit
      ]_vars

\* C8: reactivating an inactive credential makes it active in the store and
\* emits exactly one audit event; reactivating an already-active credential
\* changes nothing, returns a signal other than the one a state-changing
\* reactivation returns, and emits no audit event; for the core operation and
\* for the CLI command alike.
C8_ReactivateSymmetric ==
    [][ /\ (IsStep("reactivate") /\ last'.arg \in Ids) =>
              IF ~store[last'.arg].is_active
              THEN /\ last'.res = TRUE
                   /\ store'[last'.arg].is_active
                   /\ Len(audit') = Len(audit) + 1
              ELSE /\ last'.res # TRUE
                   /\ store' = store
                   /\ audit' = audit
        /\ (IsStep("cli_reactivate") /\ last'.arg \in Ids /\ last'.status = None) =>
              IF ~store[last'.arg].is_active
              THEN /\ last'.msg = "Successfully reactivated"
                   /\ store'[last'.arg].is_active
                   /\ Len(audit') = Len(audit) + 1
              ELSE /\ last'.msg # "Successfully reactivated"
                   /\ store' = store
                   /\ audit' = audit
      ]_vars

\* The value each operation returns for an identifier it does not find.
NotFound(op) == IF op = "rotate" THEN None ELSE FALSE

\* C9: rotate, deactivate and reactivate given an identifier that matches no
\* record report not-found and leave every record and the audit trail as they
\* were.
C9_UnknownIdChangesNothing ==
    [][ \A op \in {"rotate", "deactivate", "reactivate"} :
            (IsStep(op) /\ last'.arg \notin Ids) =>
                /\ last'.res = NotFound(op)
                /\ store' = store
                /\ audit' = audit
      ]_vars

\* C9 witness: a rotate of an unknown identifier returned None while the store
\* holds records.
C9_Witness ==
    /\ last.op = "rotate"
    /\ last.arg \notin Ids
    /\ last.res = None
    /\ store # <<>>

\* C10: rotate changes only the stored secret hash of its target: the
\* target's other fields and every other record stay as they were.
C10_RotateFrame ==
    [][ (IsStep("rotate") /\ last'.arg \in Ids) =>
            /\ Len(store') = Len(store)
            /\ \A i \in Ids :
                  IF i = last'.arg
                  THEN /\ store'[i] = [store[i] EXCEPT !.key = store'[i].key]
                       /\ store'[i].key.kind = "bcrypt"
                  ELSE store'[i] = store[i]
      ]_vars

\* The event get_api_key records for a secret that matched no credential.
KeyInvalidEvent ==
    [action |-> "api_key_invalid", user_id |-> Raw(None), status |-> "failure"]

\* C11: with authentication enabled every request the verifier gate rejects,
\* for an unmatched secret or for no secret at all, appends exactly one
\* failure audit event without actor identifier and changes no record.
C11_AuthFailureAudited ==
    [][ (/\ IsStep("convert")
         /\ API_KEY_AUTH_ENABLED
         /\ (last'.key = None \/ ~MatchesActive(last'.key))) =>
            /\ ~last'.ran
            /\ audit' = Append(audit, KeyInvalidEvent)
            /\ store' = store
      ]_vars

\* The event the route handler records for a request without credential.
AnonymousConversion ==
    [action |-> "convert_text", user_id |-> Raw(None), status |-> "success"]

\* C12: with authentication disabled every request, whatever secret it
\* presents, reaches the handler with no credential; no record is read or
\* changed (no last-used update) and the only event is the handler's own,
\* without actor.
C12_DisabledAuthAcceptsAll ==
    [][ (IsStep("convert") /\ ~API_KEY_AUTH_ENABLED) =>
            /\ last'.ran
            /\ last'.res = None
            /\ store' = store
            /\ audit' = Append(audit, AnonymousConversion)
      ]_vars

\* C12 witness: with authentication disabled a request presenting the valid
\* secret of an active credential ran as anonymous and left last_used unset.
C12_Witness ==
    /\ ~API_KEY_AUTH_ENABLED
    /\ last.op = "convert"
    /\ last.ran
    /\ last.res = None
    /\ \E c \in Ids :
          /\ store[c].is_active
          /\ store[c].key = hash_api_key(last.key)
          /\ store[c].last_used = None

\* The responses of an authentication failure.
AuthFailureResponses == {KeyRequired, KeyInvalid}

\* C13: an authenticated caller whose role is not ADMIN is refused with a
\* response that no authentication failure has, and the refusal appends an
\* audit event; every 403 of the verifier gate is an authentication failure
\* response.
C13_AuthorizationFailureDistinct ==
    [][ /\ (/\ IsStep("require_admin")
             /\ API_KEY_AUTH_ENABLED
             /\ last'.arg \in Ids
             /\ store[last'.arg].role # "admin") =>
                /\ last'.status # None
                /\ <<last'.status, last'.msg>> \notin AuthFailureResponses
                /\ audit' = Append(audit, AdminDenied(last'.arg))
        /\ (IsStep("convert") /\ last'.status = HTTP_403_FORBIDDEN) =>
                /\ ~last'.ran
                /\ <<last'.status, last'.msg>> \in AuthFailureResponses
      ]_vars

\* C13 witness: a USER credential was refused by the admin gate in a run in
\* which the verifier gate had refused an unmatched secret before.
C13_Witness ==
    /\ last.op = "require_admin"
    /\ last.arg \in Ids
    /\ store[last.arg].role = "user"
    /\ <<last.status, last.msg>> = AdminRequired
    /\ \E i \in 1..Len(audit) : audit[i] = KeyInvalidEvent

\* Every session's scan finds credential c for secret k.
EverySessionMatches(k, c) ==
    \A db \in Sessions : Scan(View(db), k, 1) = c

IsCheck == requests'.inflight = requests.inflight - 1
IsDenial == IsCheck /\ requests'.denied = requests.denied + 1

\* The caller has a window that has not expired.
InWindow == window # NoWindow /\ clock < window.start + PeriodSeconds

\* C14: with a limit of N per P seconds, of the requests the limiter decides
\* within P seconds of the window start the first N are allowed and each
\* later one is denied with retryAfter <= P; a request decided once P seconds
\* have passed since the window start is allowed and starts a fresh window.
C14_WindowOfNPerP ==
    [][ IsCheck =>
          IF InWindow
          THEN IF requests.allowed + requests.denied < RATE_LIMIT_REQUESTS
               THEN /\ requests'.allowed = requests.allowed + 1
                    /\ requests'.denied = requests.denied
                    /\ window'.start = window.start
               ELSE /\ IsDenial
                    /\ requests'.allowed = requests.allowed
                    /\ last'.op = "limited"
                    /\ last'.res.retry_after <= PeriodSeconds
          ELSE /\ requests'.allowed = 1
               /\ requests'.denied = 0
               /\ window' = [start |-> clock, count |-> 1]
      ]_vars

\* C15: a denial reports retryAfter = window start + period - now and reset
\* time = window start + period.
C15_RetryAfterIsRemainingTime ==
    [][ IsDenial =>
          /\ last'.res.retry_after = window.start + PeriodSeconds - clock
          /\ last'.res.reset = window.start + PeriodSeconds
      ]_vars

\* C16: every denial is answered with status 429 and the four values
\* together: the limit the route enforces (as many requests were allowed in
\* the window), remaining 0, a reset time (an absolute time, not before the
\* denial) and retryAfter in seconds.
C16_DenialCarriesMetadata ==
    [][ IsDenial =>
          /\ last'.op = "limited"
          /\ last'.status = 429
          /\ DOMAIN last'.res = {"limit", "remaining", "reset", "retry_after"}
          /\ last'.res.limit = RATE_LIMIT_REQUESTS
          /\ last'.res.limit = requests.allowed
          /\ last'.res.remaining = 0
          /\ last'.res.reset >= clock
          /\ last'.res.retry_after > 0
      ]_vars

\* C16 witness: a denial in a window that started before the current second,
\* while admitted requests are still being handled.
C16_Witness ==
    /\ last.op = "limited"
    /\ last.status = 429
    /\ requests.denied > 0
    /\ requests.running > 0
    /\ clock > window.start

C18_ConcurrentVerificationsSucceed ==
    [][ \A c \in Ids :
          (/\ IsStep("verify")
           /\ last'.key = plaintextOf[c]
           /\ store[c].is_active) =>
              /\ last'.res = c
              /\ store'[c].last_used = now
      ]_vars

\* C19: a rotate and a deactivate of one credential never lose each other's
\* update: the commit of rotate stores the hash of the secret it returns and
\* leaves the active flag as it finds it, the commit of deactivate makes the
\* credential inactive and leaves the stored hash as it finds it.
C19_RotateDeactivateSerialize ==
    [][ /\ (IsStep("rotate") /\ last'.arg \in Ids) =>
              /\ store'[last'.arg].key = hash_api_key(last'.key)
              /\ store'[last'.arg].is_active = store[last'.arg].is_active
        /\ (IsStep("deactivate") /\ last'.arg \in Ids) =>
              /\ ~store'[last'.arg].is_active
              /\ store'[last'.arg].key = store[last'.arg].key
      ]_vars

\* What makes a row the record it is: who issued it under which name, when.
Identity(r) == <<r.name, r.created_by, r.created_at>>

\* C26: no operation removes a record: the identifiers in the store only
\* grow, and the record under an identifier stays the record it was.
C26_NeverDeleted ==
    [][ /\ Len(store') >= Len(store)
        /\ \A i \in Ids : Identity(store'[i]) = Identity(store[i])
      ]_vars

\* C26 witness: the first of two records was deactivated (core function or
\* CLI command) and both are still in the store.
C26_Witness ==
    /\ last.op \in {"deactivate", "cli_deactivate"}
    /\ last.arg = 1
    /\ Len(store) = 2
    /\ ~store[1].is_active

\* C27: a deactivate and a reactivate of a credential change nothing of it but
\* the active flag (identifier, name, role and stored hash stay), after the
\* reactivate it is active, and a verification with its current plaintext
\* then returns it.
C27_DeactivateReactivateRoundTrip ==
    [][ /\ \A op \in {"deactivate", "reactivate"} :
              (IsStep(op) /\ last'.arg \in Ids) =>
                  store'[last'.arg] =
                      [store[last'.arg] EXCEPT !.is_active = (op = "reactivate")]
        /\ \A c \in Ids :
              (/\ IsStep("verify")
               /\ last'.key = plaintextOf[c]
               /\ store[c].is_active
               /\ \E i \in 1..Len(audit) : audit[i].action = "reactivate_api_key") =>
                  last'.res = c
      ]_vars

\* The event verify_api_key records for a match of credential c.
KeyUsed(c) == [action |-> "api_key_used", user_id |-> Str(c), status |-> "success"]

\* C28: a verification that returns credential c changes the last-used
\* timestamp of c and nothing else: every other field of c and every other
\* record stay as they were, c is active and is the first active record whose
\* hash matches, and exactly one api_key_used event with actor c is appended.
C28_VerifyFrame ==
    [][ (IsStep("verify") /\ last'.res \in Ids) =>
          LET c == last'.res IN
          /\ store[c].is_active
          /\ \A i \in 1..(c - 1) :
                ~(store[i].is_active /\ store[i].key = hash_api_key(last'.key))
          /\ store' = [store EXCEPT ![c].last_used = now]
          /\ audit' = Append(audit, KeyUsed(c))
      ]_vars

\* Some active record holds a key that is no well-formed digest.
MalformedDigestStored ==
    \E i \in Ids : store[i].is_active /\ store[i].key.kind # "bcrypt"

\* C24: while an active record holds a malformed digest, a verification never
\* raises: a secret that matches no record yields None, and the valid secret
\* of another active credential still returns that credential.
C24_MalformedDigestIsNoMatch ==
    [][ (IsStep("verify") /\ MalformedDigestStored) =>
          /\ last'.res # ValueError
          /\ ~MatchesActive(last'.key) => last'.res = None
          /\ \A c \in Ids :
                (store[c].is_active /\ store[c].key = hash_api_key(last'.key)) =>
                    last'.res = c
      ]_vars

\* The trail grew by exactly one event, a RATE_LIMIT_EXCEEDED one.
DenialAudited ==
    /\ Len(audit') = Len(audit) + 1
    /\ SubSeq(audit', 1, Len(audit)) = audit
    /\ audit'[Len(audit')].action = "RATE_LIMIT_EXCEEDED"

\* C25: every denial appends exactly one RATE_LIMIT_EXCEEDED event, with
\* status failure and no actor, that carries the caller's origin, the route
\* and the reset time the 429 response carries; no other step appends such an
\* event.
C25_DenialAudited ==
    [][ IF IsDenial
        THEN /\ DenialAudited
             /\ LET e == audit'[Len(audit')] IN
                   /\ e.status = "failure"
                   /\ e.user_id = Raw(None)
                   /\ DOMAIN e.details = {"client_ip", "path", "reset_time"}
                   /\ e.details.reset_time = last'.res.reset
        ELSE ~DenialAudited
      ]_vars

\* C25 witness: a denial is the newest event of a trail that also holds the
\* event of an admitted request, and its reset time is the response's.
C25_Witness ==
    /\ last.op = "limited"
    /\ Len(audit) >= 2
    /\ audit[Len(audit)].action = "RATE_LIMIT_EXCEEDED"
    /\ audit[Len(audit)].details.reset_time = last.res.reset
    /\ \E i \in 1..Len(audit) : audit[i].action = "convert_text"

\* C22: a request the limiter denies has read and changed no record and has
\* appended no event but the denial's (no lookup, no last-used update, no
\* api_key_used event), and a request the verifier refuses never runs the
\* handler.
C22_LimiterBeforeVerifier ==
    [][ /\ IsStep("limited") =>
              /\ store' = store
              /\ DenialAudited
        /\ (IsStep("convert") /\ last'.status = HTTP_403_FORBIDDEN) => ~last'.ran
      ]_vars

\* The core operations that write a credential, and what each tells the
\* user on success.
CredentialOps == {"create", "rotate", "deactivate", "reactivate"}
SuccessMessages == {"Successfully deactivated", "Successfully reactivated"}

\* C21: while the table cannot be written, no credential operation succeeds
\* silently: no record changes, an issue, rotate, deactivate or reactivate
\* that reaches its write raises, returns no plaintext and records no event,
\* and no CLI command prints its success message.
C21_StorageFailureNotSilent ==
    [][ storeDown =>
          /\ store' = store
          /\ \A op \in CredentialOps :
                IsStep(op) =>
                    /\ last'.key = None
                    /\ audit' = audit
                    /\ (op = "create" \/ last'.arg \in Ids) =>
                          (last'.msg = "OperationalError" \/ last'.res = ValueError)
          /\ \A op \in {"cli_deactivate", "cli_reactivate"} :
                IsStep(op) => last'.msg \notin SuccessMessages
      ]_vars

C29_VerifyKeepsDeactivation ==
    [][ /\ \A c \in Ids : ~store[c].is_active => ~store'[c].is_active
        /\ \A db \in Sessions :
              (txn[db] = NoTxn /\ txn'[db].op = "verify") =>
                  store[txn'[db].match].is_active
        /\ \A c \in Ids :
              (/\ IsStep("verify")
               /\ txn' = txn
               /\ last'.key = plaintextOf[c]
               /\ ~store[c].is_active) =>
                  last'.res \notin Ids
      ]_vars

\* C29 witness: a verification matched credential c while it was active, the
\* deactivation of c committed, then the verification committed: it returned
\* c, set its last-used time, and c is still inactive.
C29_Witness ==
    /\ last.op = "verify"
    /\ last.res \in Ids
    /\ ~store[last.res].is_active
    /\ store[last.res].last_used = now - 1
    /\ Len(audit) = 2
    /\ audit[1].action = "deactivate_api_key"
    /\ audit[2].action = "api_key_used"

====
